---- MODULE Spec2Model ----
(***************************************************************************)
(* Model of yousync (src/src/main.rs, src/youtrack_api/src/lib.rs): the    *)
(* bootstrap import of the GitHub issues into YouTrack, the conditional    *)
(* polling of the issue-event feed, the window of seen event ids and the   *)
(* create-or-update dispatch of every unseen event.                        *)
(*                                                                         *)
(* run() is one sequential function; pc is its position (the await it is   *)
(* about to execute).  GitHub and YouTrack are the environment: what they  *)
(* answer is drawn with \E from the sets below.                            *)
(***************************************************************************)
EXTENDS Integers, Sequences, FiniteSets, TLC

VARIABLES
    pc,             \* position of run(): start, get_issues, find_project,
                    \* bootstrap, poll, dispatch, sleep, exit
    err,            \* the error run() ended with ("" while it runs)
    etag,           \* main.rs:89 `let mut etag`: Option<EntityTag>
    github_issues,  \* main.rs:91: the part of the list the for loop of line 114 has not taken yet
    project,        \* main.rs:107: the selected project, Option
    issues,         \* main.rs:113: HashMap source issue id -> YouTrack issue id
    seen,           \* main.rs:124: VecDeque of event ids, seen[1] is the front
    page,           \* main.rs:142: the events of the current page not handled yet
    feedLen,        \* GitHub: number of events the feed has emitted (ids 1..feedLen)
    nextTarget,     \* YouTrack: number of issues it has created
    polls,          \* number of feed requests the loop has sent
    env,            \* which repository the run is pointed at: "repo" or "busy"
    \* history of the run, read by the properties only
    calls,          \* the create/update calls the last step issued
    created,        \* source id -> set of YouTrack ids created for it
    fetched,        \* the ids of the genuine issues get_issues returned
    lastPoll,       \* the last feed request of the loop and its answer
    insLog,         \* the event ids pushed into seen, in order
    evicted,        \* the event ids the last step popped from seen
    handled,        \* the unseen event the last step dispatched, Option
    prevBatch,      \* event ids dispatched from the previous modified page
    curBatch,       \* event ids dispatched from the current modified page
    again           \* the last step dispatched the last event once more, past the window

vars == <<pc, err, etag, github_issues, project, issues, seen, page, feedLen,
          nextTarget, polls, env, calls, created, fetched, lastPoll, insLog,
          evicted, handled, prevBatch, curBatch, again>>

progVars == <<etag, github_issues, project, issues, seen, page>>
histVars == <<calls, created, fetched, lastPoll, insLog, evicted, handled, prevBatch,
              curBatch, again>>

-----------------------------------------------------------------------------
(* Bounds of the model *)

MaxIssue == 2       \* genuine source issues have ids 1..MaxIssue
MaxList == 2        \* longest list get_issues returns
MaxEvents == 2      \* events the feed of "repo" emits during a run
MaxBurst == 2       \* most events "repo" emits between two feed requests
BusyEvents == 22    \* events the feed of "busy" emits during a run
MaxPolls == 2       \* feed requests the loop sends to "repo" and "texts"
BusyPolls == 4      \* feed requests the loop sends to "busy"

(* Program constants *)

WindowCap == 20     \* main.rs:147 `seen.len() == 20`
PerPage == 10       \* main.rs:78 `per_page=10`

-----------------------------------------------------------------------------
(* Option<T> *)

None == <<>>
Some(x) == <<x>>
IsSome(o) == o # None
Unwrap(o) == o[1]

Range(s) == {s[i] : i \in 1..Len(s)}

RECURSIVE SeqsUpTo(_, _)
SeqsUpTo(S, n) ==
    IF n = 0 THEN {<<>>}
    ELSE LET shorter == SeqsUpTo(S, n - 1)
         IN  shorter \cup {Append(s, x) : s \in {t \in shorter : Len(t) = n - 1}, x \in S}

-----------------------------------------------------------------------------
(* octocrab models::issues::Issue, the fields run() reads *)

IssueIds == 1..MaxIssue
PullId == MaxIssue + 1          \* the id of an entry that is a pull request
SourceIds == IssueIds \cup {PullId}

Titles == {"Bug", "Crash"}
Bodies == {None, Some("steps")}
IssueStates == {"Open", "Closed", "Other"}      \* IssueState is non_exhaustive
StateReasons == {None, Some("Completed"), Some("NotPlanned"),
                 Some("Reopened"), Some("Duplicate")}

Issue ==
    { [id |-> i, title |-> t, body |-> b, state |-> s, state_reason |-> r,
       pull_request |-> IF i = PullId THEN Some("pr") ELSE None] :
        i \in SourceIds, t \in Titles, b \in Bodies, s \in IssueStates, r \in StateReasons }

Snapshot(i, t, b, s, r) ==
    [id |-> i, title |-> t, body |-> b, state |-> s, state_reason |-> r,
     pull_request |-> IF i = PullId THEN Some("pr") ELSE None]

(* AltEvent.event *)
EventKinds == {"closed", "reopened", "renamed", "commented"}

-----------------------------------------------------------------------------
(* The repositories a run can be pointed at:                                *)
(*   "repo"   a small repository: lists with repeated entries and pull     *)
(*            requests, events of every kind about every entry;            *)
(*   "texts"  a repository whose issues take every title, body, state and  *)
(*            state reason;                                                *)
(*   "busy"   a repository with one issue and a long feed.                 *)

ListedIssues ==
    { Snapshot(1, "Bug", None, "Open", None),
      Snapshot(1, "Crash", Some("steps"), "Closed", Some("Duplicate")),
      Snapshot(2, "Crash", Some("steps"), "Closed", Some("NotPlanned")),
      Snapshot(PullId, "Bug", None, "Open", None) }

RepoIssues ==
    { Snapshot(1, "Crash", Some("steps"), "Closed", Some("Duplicate")),
      Snapshot(PullId, "Bug", None, "Open", None) }
    \cup { Snapshot(i, "Bug", None, "Closed", Some("NotPlanned")) : i \in IssueIds \ {1} }

BusyIssue == Snapshot(1, "Bug", None, "Closed", Some("Completed"))

IssueLists(e) ==
    CASE e = "repo" -> SeqsUpTo(ListedIssues, MaxList)
      [] e = "texts" -> {<<>>} \cup {<<i>> : i \in {x \in Issue : x.id = 1}}
      [] OTHER -> {<<>>, <<BusyIssue>>}

EventIssues(e) ==
    CASE e = "repo" -> RepoIssues
      [] e = "texts" -> {x \in Issue : x.id \in {1, PullId}}
      [] OTHER -> {BusyIssue}

Kinds(e) == IF e = "repo" THEN EventKinds ELSE {"closed", "commented"}

Bursts(e) ==
    CASE e = "repo" -> 0..MaxBurst
      [] e = "texts" -> {0, 1}
      [] OTHER -> {0, 1, 2, PerPage}

\* events the feed holds when the run starts
Backlog(e) == {0, 1}

FeedCap(e) ==
    CASE e = "repo" -> MaxEvents
      [] e = "texts" -> MaxEvents
      [] OTHER -> BusyEvents

\* whether a response of GitHub may come without an ETag header
Headerless(e) == IF e = "repo" THEN {FALSE, TRUE} ELSE {FALSE}

\* whether a page of the feed may list an event a second time
Repeats(e) == IF e = "busy" THEN {FALSE, TRUE} ELSE {FALSE}

\* feed requests the loop sends
PollCap(e) == IF e = "busy" THEN BusyPolls ELSE MaxPolls

ProjectLists == {<<>>, <<"P1">>, <<"P1", "P2">>}

last(projects) == projects[Len(projects)]

\* main.rs:107-108 `projects.first()`, of a list that is not empty
first(projects) == Head(projects)

-----------------------------------------------------------------------------
(* HashMap<IssueId, youtrack_api::IssueId> *)

EmptyMap == [k \in {} |-> 0]

GetMiss(m, k) == None

\* HashMap::get
Get(m, k) == IF k \in DOMAIN m THEN Some(m[k]) ELSE None

\* HashMap::insert: an existing key keeps one entry, with the new value
Insert(m, k, v) == [x \in DOMAIN m \cup {k} |-> IF x = k THEN v ELSE m[x]]

-----------------------------------------------------------------------------
(* create_issue_data, main.rs:191-213 *)

StateNameClosedAsOpen(issue) ==
    IF issue.state = "Open" THEN "Open"
    ELSE IF issue.state = "Closed" THEN "Open"
    ELSE "Submitted"

\* main.rs:199-208, the match on issue.state and issue.state_reason
StateName(issue) ==
    IF issue.state = "Open" THEN "Open"
    ELSE IF issue.state = "Closed" THEN
        IF issue.state_reason = Some("NotPlanned") THEN "Won't fix"
        ELSE IF issue.state_reason = Some("Reopened") THEN "Reopened"
        ELSE IF issue.state_reason = Some("Duplicate") THEN "Duplicate"
        ELSE "Fixed"
    ELSE "Submitted"

create_issue_data(issue) ==
    [summary |-> issue.title,
     description |-> issue.body,
     custom_fields |-> << [name |-> "State",
                           type_ |-> "StateIssueCustomField",
                           value |-> [name |-> StateName(issue)]] >>]

-----------------------------------------------------------------------------
(* The window of seen event ids, main.rs:124 and 146-151 *)

\* VecDeque::contains
SeenContains(s, id) == \E i \in 1..Len(s) : s[i] = id

\* VecDeque::pop_front removes the front element
pop_front(s) == Tail(s)

\* VecDeque::push_front makes id the front element
push_front(s, id) == <<id>> \o s

SeenInsertPopLast(s, id) ==
    IF Len(s) = WindowCap THEN pop_front(push_front(s, id)) ELSE push_front(s, id)

SeenInsertUnbounded(s, id) == push_front(s, id)

\* main.rs:147-151
SeenInsert(s, id) ==
    push_front(IF Len(s) = WindowCap THEN pop_front(s) ELSE s, id)

-----------------------------------------------------------------------------
(* The dispatch decision, main.rs:161-172 *)

IsMutationNoRename(kind) == kind = "closed" \/ kind = "reopened"

\* main.rs:162-164
IsMutation(kind) == kind = "closed" \/ kind = "reopened" \/ kind = "renamed"

\* main.rs:114 `.filter(|v| v.pull_request.is_none())`
Genuine(list) == SelectSeq(list, LAMBDA v : v.pull_request = None)

-----------------------------------------------------------------------------
(* The conditional fetch, main.rs:126-141 *)

IfNoneMatchNever(tag) == None

\* main.rs:129-135: the If-None-Match header of the request, None when it has none
IfNoneMatch(tag) == IF IsSome(tag) THEN Some(Unwrap(tag)) ELSE None

StoredEtagFallback(old, header) == IF IsSome(header) THEN header ELSE old

\* main.rs:139 `etag = EntityTag::extract_from_response(&response)`:
\* the value etag holds after the assignment, given the response's ETag header
StoredEtag(old, header) == header

(* GitHub's feed: the validator of the feed holding n events is n; a request *)
(* is answered 304 exactly when it carries the current validator, and the    *)
(* page holds the newest PerPage events, newest first.                       *)

FeedStatus(sent, n) == IF sent = Some(n) THEN 304 ELSE 200

FeedPage(n) ==
    LET len == IF n < PerPage THEN n ELSE PerPage
    IN  [i \in 1..len |-> n - i + 1]

\* a page of at most PerPage entries that lists its newest event a second
\* time, after the event that follows it
FeedPageTwice(n) ==
    LET p == FeedPage(n)
        q == IF Len(p) < 2 THEN p \o p
             ELSE <<p[1], p[2], p[1]>> \o SubSeq(p, 3, Len(p))
    IN  SubSeq(q, 1, IF Len(q) < PerPage THEN Len(q) ELSE PerPage)

\* main.rs:142-145: the items of the page the loop iterates over
PageItems(twice, n) == IF twice THEN FeedPageTwice(n) ELSE FeedPage(n)

FeedHeader(bare, n) == IF bare THEN None ELSE Some(n)

-----------------------------------------------------------------------------
(* Records of the history variables *)

Call(op, by, to, issue, ok, id) ==
    [op |-> op, by |-> by, project |-> project, to |-> to, issue |-> issue,
     data |-> create_issue_data(issue), ok |-> ok, id |-> id]

NoCreated == [s \in SourceIds |-> {}]

Record(c, src, id) == [c EXCEPT ![src] = @ \cup {id}]

-----------------------------------------------------------------------------
InitIn(e) ==
    /\ pc = "start"
    /\ err = ""
    /\ etag = None
    /\ github_issues = <<>>
    /\ project = None
    /\ issues = EmptyMap
    /\ seen = <<>>
    /\ page = <<>>
    /\ feedLen = 0
    /\ nextTarget = 0
    /\ polls = 0
    /\ env = e
    /\ calls = <<>>
    /\ created = NoCreated
    /\ fetched = {}
    /\ lastPoll = None
    /\ insLog = <<>>
    /\ evicted = {}
    /\ handled = None
    /\ prevBatch = {}
    /\ curBatch = {}
    /\ again = FALSE

ExitRetry(msg) ==
    /\ pc' = "sleep"
    /\ err' = msg

ExitResume(msg) ==
    /\ pc' = pc
    /\ err' = msg

\* run() returns Err(msg) (main.rs:224-226 prints it) or panics
Exit(msg) ==
    /\ pc' = "exit"
    /\ err' = msg

\* a step that issues no call and handles no event
Quiet ==
    /\ calls' = <<>>
    /\ evicted' = {}
    /\ handled' = None
    /\ again' = FALSE

-----------------------------------------------------------------------------
(* Startup, main.rs:76-111 *)

\* main.rs:87-89: the first feed request, sent without a validator; the feed
\* holds the k events emitted before the run
FetchEtag ==
    /\ pc = "start"
    /\ \E k \in Backlog(env), bare \in Headerless(env) :
        /\ feedLen' = k
        /\ etag' = StoredEtag(etag, FeedHeader(bare, k))
    /\ pc' = "get_issues"
    /\ Quiet
    /\ UNCHANGED <<err, github_issues, project, issues, seen, page, nextTarget, polls,
                   env, created, fetched, lastPoll, insLog, prevBatch, curBatch>>

\* main.rs:87 `._get(&issues_uri).await?`
FetchEtagFails ==
    /\ pc = "start"
    /\ Exit("request failed")
    /\ Quiet
    /\ UNCHANGED <<progVars, feedLen, nextTarget, polls, env, created, fetched,
                   lastPoll, insLog, prevBatch, curBatch>>

\* main.rs:91, get_issues (35-60): every page of the issue list, merged
GetIssues ==
    /\ pc = "get_issues"
    /\ \E list \in IssueLists(env) :
        /\ github_issues' = list
        /\ fetched' = {list[i].id : i \in {j \in 1..Len(list) : list[j].pull_request = None}}
    /\ pc' = "find_project"
    /\ Quiet
    /\ UNCHANGED <<err, etag, project, issues, seen, page, feedLen, nextTarget, polls,
                   env, created, lastPoll, insLog, prevBatch, curBatch>>

\* main.rs:91 `get_issues(..).await?`
GetIssuesFails ==
    /\ pc = "get_issues"
    /\ Exit("request failed")
    /\ Quiet
    /\ UNCHANGED <<progVars, feedLen, nextTarget, polls, env, created, fetched,
                   lastPoll, insLog, prevBatch, curBatch>>

\* main.rs:105-109 with a project found: the first one is selected
FindProject ==
    /\ pc = "find_project"
    /\ \E projects \in ProjectLists :
        /\ projects # <<>>
        /\ project' = Some(first(projects))
    /\ pc' = "bootstrap"
    /\ Quiet
    /\ UNCHANGED <<err, etag, github_issues, issues, seen, page, feedLen, nextTarget,
                   polls, env, created, fetched, lastPoll, insLog, prevBatch, curBatch>>

\* main.rs:107-109: `.first().ok_or_else(..)?` on an empty answer
FindProjectNone ==
    /\ pc = "find_project"
    /\ <<>> \in ProjectLists
    /\ Exit("Project not found")
    /\ Quiet
    /\ UNCHANGED <<progVars, feedLen, nextTarget, polls, env, created, fetched,
                   lastPoll, insLog, prevBatch, curBatch>>

\* main.rs:105 `.unwrap()` and lib.rs:90 `.expect(":(")`: the request fails
FindProjectPanics ==
    /\ pc = "find_project"
    /\ Exit("panic")
    /\ Quiet
    /\ UNCHANGED <<progVars, feedLen, nextTarget, polls, env, created, fetched,
                   lastPoll, insLog, prevBatch, curBatch>>

-----------------------------------------------------------------------------
(* Bootstrap, main.rs:113-118 *)

\* one iteration of the for loop: create_issue (181-189) succeeds, and the
\* returned id is inserted under issue.id
BootstrapCreate ==
    /\ pc = "bootstrap"
    /\ Genuine(github_issues) # <<>>
    /\ LET issue == Head(Genuine(github_issues))
           id == nextTarget + 1
       IN  /\ nextTarget' = id
           /\ issues' = Insert(issues, issue.id, id)
           /\ github_issues' = Tail(Genuine(github_issues))
           /\ calls' = <<Call("create", "bootstrap", None, issue, TRUE, Some(id))>>
           /\ created' = Record(created, issue.id, id)
    /\ evicted' = {}
    /\ handled' = None
    /\ again' = FALSE
    /\ UNCHANGED <<pc, err, etag, project, seen, page, feedLen, polls, env, fetched,
                   lastPoll, insLog, prevBatch, curBatch>>

\* main.rs:115 `create_issue(project, issue).await?` fails
BootstrapCreateFails ==
    /\ pc = "bootstrap"
    /\ Genuine(github_issues) # <<>>
    /\ LET issue == Head(Genuine(github_issues))
       IN  calls' = <<Call("create", "bootstrap", None, issue, FALSE, None)>>
    /\ Exit("Failed to create an issue")
    /\ evicted' = {}
    /\ handled' = None
    /\ again' = FALSE
    /\ UNCHANGED <<progVars, feedLen, nextTarget, polls, env, created, fetched,
                   lastPoll, insLog, prevBatch, curBatch>>

\* the for loop ends; main.rs:123-124: the window is created, empty
BootstrapDone ==
    /\ pc = "bootstrap"
    /\ Genuine(github_issues) = <<>>
    /\ github_issues' = <<>>
    /\ seen' = <<>>
    /\ pc' = "poll"
    /\ Quiet
    /\ UNCHANGED <<err, etag, project, issues, page, feedLen, nextTarget, polls, env,
                   created, fetched, lastPoll, insLog, prevBatch, curBatch>>

-----------------------------------------------------------------------------
(* The poll, main.rs:126-144.  GitHub has emitted k more events since the  *)
(* last feed request.                                                      *)

\* the answer is 304: etag is assigned from the response, nothing is parsed
PollUnchanged ==
    /\ pc = "poll"
    /\ polls < PollCap(env)
    /\ \E k \in Bursts(env), bare \in Headerless(env) :
        LET n == feedLen + k
            sent == IfNoneMatch(etag)
            header == FeedHeader(bare, n)
        IN  /\ n <= FeedCap(env)
            /\ FeedStatus(sent, n) = 304
            /\ feedLen' = n
            /\ etag' = StoredEtag(etag, header)
            /\ lastPoll' = Some([sent |-> sent, status |-> 304, header |-> header,
                                 before |-> etag, events |-> <<>>])
    /\ polls' = polls + 1
    /\ pc' = "sleep"
    /\ Quiet
    /\ UNCHANGED <<err, github_issues, project, issues, seen, page, nextTarget, env,
                   created, fetched, insLog, prevBatch, curBatch>>

\* the answer is not 304 and its body parses into a page of events
PollEvents ==
    /\ pc = "poll"
    /\ polls < PollCap(env)
    /\ \E k \in Bursts(env), bare \in Headerless(env), twice \in Repeats(env) :
        LET n == feedLen + k
            sent == IfNoneMatch(etag)
            header == FeedHeader(bare, n)
            items == PageItems(twice, n)
        IN  /\ n <= FeedCap(env)
            /\ FeedStatus(sent, n) # 304
            /\ feedLen' = n
            /\ etag' = StoredEtag(etag, header)
            /\ lastPoll' = Some([sent |-> sent, status |-> 200, header |-> header,
                                 before |-> etag, events |-> items])
            /\ page' = items
            /\ pc' = IF items = <<>> THEN "sleep" ELSE "dispatch"
    /\ polls' = polls + 1
    /\ prevBatch' = curBatch
    /\ curBatch' = {}
    /\ Quiet
    /\ UNCHANGED <<err, github_issues, project, issues, seen, nextTarget, env, created,
                   fetched, insLog>>

\* main.rs:137-138: the request fails, etag is not assigned
PollFails ==
    /\ pc = "poll"
    /\ polls < PollCap(env)
    /\ polls' = polls + 1
    /\ lastPoll' = Some([sent |-> IfNoneMatch(etag), status |-> 0, header |-> None,
                         before |-> etag, events |-> <<>>])
    /\ Exit("Failed to fetch events with etag")
    /\ Quiet
    /\ UNCHANGED <<progVars, feedLen, nextTarget, env, created, fetched, insLog,
                   prevBatch, curBatch>>

\* main.rs:142-144: the answer is not 304 and Page::from_response fails,
\* after etag was assigned on line 139
ParseFails ==
    /\ pc = "poll"
    /\ polls < PollCap(env)
    /\ \E bare \in Headerless(env) :
        LET sent == IfNoneMatch(etag)
            header == FeedHeader(bare, feedLen)
        IN  /\ etag' = StoredEtag(etag, header)
            /\ lastPoll' = Some([sent |-> sent, status |-> 200, header |-> header,
                                 before |-> etag, events |-> <<>>])
    /\ polls' = polls + 1
    /\ Exit("Failed to parse response")
    /\ Quiet
    /\ UNCHANGED <<github_issues, project, issues, seen, page, feedLen, nextTarget, env,
                   created, fetched, insLog, prevBatch, curBatch>>

\* main.rs:177
Sleep ==
    /\ pc = "sleep"
    /\ pc' = "poll"
    /\ Quiet
    /\ UNCHANGED <<err, progVars, feedLen, nextTarget, polls, env, created, fetched,
                   lastPoll, insLog, prevBatch, curBatch>>

-----------------------------------------------------------------------------
(* One iteration of `for event in page`, main.rs:145-174.  The event is    *)
(* the head of page; its kind and its issue snapshot are what GitHub put   *)
(* in the page.                                                            *)

\* where run() continues after the iteration
AfterEventNoDelay == IF Tail(page) = <<>> THEN "poll" ELSE "dispatch"

AfterEvent == IF Tail(page) = <<>> THEN "sleep" ELSE "dispatch"

Event(id, kind, issue) == [id |-> id, event |-> kind, issue |-> issue]

\* main.rs:146 is false: the id is in the window
DispatchSeen ==
    /\ pc = "dispatch"
    /\ SeenContains(seen, Head(page))
    /\ page' = Tail(page)
    /\ pc' = AfterEvent
    /\ Quiet
    /\ UNCHANGED <<err, etag, github_issues, project, issues, seen, feedLen, nextTarget,
                   polls, env, created, fetched, lastPoll, insLog, prevBatch, curBatch>>

\* main.rs:146-152: the id is not in the window and is pushed into it
MarkSeen(event) ==
    /\ pc = "dispatch"
    /\ event.id = Head(page)
    /\ ~SeenContains(seen, event.id)
    /\ seen' = SeenInsert(seen, event.id)
    /\ insLog' = Append(insLog, event.id)
    /\ evicted' = Range(seen) \ Range(SeenInsert(seen, event.id))
    /\ curBatch' = curBatch \cup {event.id}
    /\ handled' = Some([id |-> event.id, event |-> event.event, issue |-> event.issue.id,
                       mapped |-> Get(issues, event.issue.id)])
    /\ page' = Tail(page)
    /\ again' = FALSE

\* main.rs:161-169: the issue is mapped, the kind is a mutation, update_issue succeeds
DispatchUpdate ==
    \E issue \in EventIssues(env), kind \in Kinds(env) :
        LET event == Event(Head(page), kind, issue)
            youtrack_id == Get(issues, event.issue.id)
        IN  /\ MarkSeen(event)
            /\ IsSome(youtrack_id)
            /\ IsMutation(event.event)
            /\ calls' = <<Call("update", "dispatch", youtrack_id, event.issue, TRUE, None)>>
            /\ pc' = AfterEvent
            /\ UNCHANGED <<err, etag, github_issues, project, issues, feedLen, nextTarget,
                           polls, env, created, fetched, lastPoll, prevBatch>>

\* main.rs:166-168: `update_issue(..).await?` fails (lib.rs:167, the request is not sent)
DispatchUpdateFails ==
    \E issue \in EventIssues(env), kind \in Kinds(env) :
        LET event == Event(Head(page), kind, issue)
            youtrack_id == Get(issues, event.issue.id)
        IN  /\ MarkSeen(event)
            /\ IsSome(youtrack_id)
            /\ IsMutation(event.event)
            /\ calls' = <<Call("update", "dispatch", youtrack_id, event.issue, FALSE, None)>>
            /\ Exit("request failed")
            /\ UNCHANGED <<etag, github_issues, project, issues, feedLen, nextTarget,
                           polls, env, created, fetched, lastPoll, prevBatch>>

\* main.rs:161-169: the issue is mapped and the kind is no mutation
DispatchIgnore ==
    \E issue \in EventIssues(env), kind \in Kinds(env) :
        LET event == Event(Head(page), kind, issue)
            youtrack_id == Get(issues, event.issue.id)
        IN  /\ MarkSeen(event)
            /\ IsSome(youtrack_id)
            /\ ~IsMutation(event.event)
            /\ calls' = <<>>
            /\ pc' = AfterEvent
            /\ UNCHANGED <<err, etag, github_issues, project, issues, feedLen, nextTarget,
                           polls, env, created, fetched, lastPoll, prevBatch>>

\* main.rs:170-172: the issue is not mapped, create_issue succeeds and the id
\* it returns is dropped
DispatchCreate ==
    \E issue \in EventIssues(env), kind \in Kinds(env) :
        LET event == Event(Head(page), kind, issue)
            id == nextTarget + 1
        IN  /\ MarkSeen(event)
            /\ Get(issues, event.issue.id) = None
            /\ nextTarget' = id
            /\ calls' = <<Call("create", "dispatch", None, event.issue, TRUE, Some(id))>>
            /\ created' = Record(created, event.issue.id, id)
            /\ pc' = AfterEvent
            /\ UNCHANGED <<err, etag, github_issues, project, issues, feedLen, polls, env,
                           fetched, lastPoll, prevBatch>>

\* main.rs:171 `create_issue(project, &event.issue).await?` fails
DispatchCreateFails ==
    \E issue \in EventIssues(env), kind \in Kinds(env) :
        LET event == Event(Head(page), kind, issue)
        IN  /\ MarkSeen(event)
            /\ Get(issues, event.issue.id) = None
            /\ calls' = <<Call("create", "dispatch", None, event.issue, FALSE, None)>>
            /\ Exit("Failed to create an issue")
            /\ UNCHANGED <<etag, github_issues, project, issues, feedLen, nextTarget,
                           polls, env, created, fetched, lastPoll, prevBatch>>

-----------------------------------------------------------------------------
Next ==
    \/ FetchEtag
    \/ FetchEtagFails
    \/ GetIssues
    \/ GetIssuesFails
    \/ FindProject
    \/ FindProjectNone
    \/ FindProjectPanics
    \/ BootstrapCreate
    \/ BootstrapCreateFails
    \/ BootstrapDone
    \/ PollUnchanged
    \/ PollEvents
    \/ PollFails
    \/ ParseFails
    \/ Sleep
    \/ DispatchSeen
    \/ DispatchUpdate
    \/ DispatchUpdateFails
    \/ DispatchIgnore
    \/ DispatchCreate
    \/ DispatchCreateFails

\* a run against the small repository
Init == InitIn("repo")
Spec == Init /\ [][Next]_vars

\* a run against the repository whose issues take every shape
InitTexts == InitIn("texts")
SpecTexts == InitTexts /\ [][Next]_vars

\* a run against the repository with the long feed
InitBusy == InitIn("busy")
SpecBusy == InitBusy /\ [][Next]_vars

-----------------------------------------------------------------------------
(* The dispatch of main.rs:161-172 run a second time on the event that was  *)
(* dispatched last, without the check of the window on line 146, when the  *)
(* issue of the event is a key of the mapping.                             *)

\* both calls succeed; the event is the one of the last step, with its snapshot
DispatchAgain ==
    /\ pc \in {"dispatch", "sleep"}
    /\ err = ""
    /\ ~again
    /\ IsSome(handled)
    /\ calls # <<>>
    /\ Unwrap(handled).issue \in DOMAIN issues
    /\ LET event == Event(Unwrap(handled).id, Unwrap(handled).event, calls[1].issue)
           youtrack_id == Get(issues, event.issue.id)
           id == nextTarget + 1
       IN  IF IsSome(youtrack_id)
           THEN /\ calls' = IF IsMutation(event.event)
                            THEN <<Call("update", "dispatch", youtrack_id, event.issue,
                                        TRUE, None)>>
                            ELSE <<>>
                /\ UNCHANGED <<nextTarget, created>>
           ELSE /\ nextTarget' = id
                /\ calls' = <<Call("create", "dispatch", None, event.issue, TRUE, Some(id))>>
                /\ created' = Record(created, event.issue.id, id)
    /\ again' = TRUE
    /\ UNCHANGED <<pc, err, progVars, feedLen, polls, env, fetched, lastPoll, insLog,
                   evicted, handled, prevBatch, curBatch>>

NextTwice ==
    \/ Next
    \/ DispatchAgain

SpecTwice == Init /\ [][NextTwice]_vars

-----------------------------------------------------------------------------
(* Properties *)

CallSet == Range(calls)

\* C1: the dispatcher issues no create call for a source issue id for which
\* a target issue was created earlier in the run (at bootstrap or by an
\* earlier event): no source id gets two creates.
C1_NoSecondCreate ==
    \A c \in CallSet :
        (c.op = "create" /\ c.by = "dispatch")
            => created[c.issue.id] \ Range(c.id) = {}

\* C2: an unseen event about an unmapped source issue issues one create call,
\* whatever its kind, and when the create succeeds the mapping holds
\* event.issue.id -> the returned id.
C2_CreateThenMapped ==
    (IsSome(handled) /\ Unwrap(handled).mapped = None) =>
        /\ Len(calls) = 1
        /\ calls[1].op = "create"
        /\ calls[1].issue.id = Unwrap(handled).issue
        /\ calls[1].ok => Get(issues, calls[1].issue.id) = calls[1].id

\* index of the last push of id x before the newest one
LastPush(x) ==
    LET at == {i \in 1..(Len(insLog) - 1) : insLog[i] = x}
    IN  CHOOSE i \in at : \A j \in at : j <= i

\* C3: the window evicts oldest-first: the id an insertion removes is the one
\* pushed earliest among the ids held, and after WindowCap + 1 distinct ids
\* were pushed into the empty window the first is absent and the WindowCap
\* newest are present.
C3_OldestEvictedFirst ==
    /\ \A x \in evicted :
        \A y \in Range(seen) \ {insLog[Len(insLog)]} : LastPush(x) < LastPush(y)
    /\ Len(insLog) = WindowCap + 1 =>
        /\ ~SeenContains(seen, insLog[1])
        /\ \A i \in 2..(WindowCap + 1) : SeenContains(seen, insLog[i])

\* C4: an event dispatched from one modified page and returned again by the
\* next modified page causes no create and no update call the second time.
C4_NoRedispatch ==
    (IsSome(handled) /\ Unwrap(handled).id \in prevBatch) => calls = <<>>

\* C5: after a poll answered 304 the stored token is the token stored before
\* the poll, and no event was parsed.
C5_NotModifiedKeepsToken ==
    (IsSome(lastPoll) /\ Unwrap(lastPoll).status = 304) =>
        /\ etag = Unwrap(lastPoll).before
        /\ Unwrap(lastPoll).events = <<>>
        /\ page = <<>>

\* C6: after a poll answered with a modified response the stored token is the
\* validator of that response, absent when the response carries none; and
\* every poll request carries exactly the token stored when it is sent.
C6_TokenReplaced ==
    IsSome(lastPoll) =>
        /\ Unwrap(lastPoll).status = 200 => etag = Unwrap(lastPoll).header
        /\ Unwrap(lastPoll).sent = Unwrap(lastPoll).before

\* a modified response without validator dropped the stored token
C6_Witness ==
    /\ IsSome(lastPoll)
    /\ Unwrap(lastPoll).status = 200
    /\ IsSome(Unwrap(lastPoll).before)
    /\ Unwrap(lastPoll).header = None
    /\ etag = None
    /\ pc = "dispatch"

\* C7: an unseen event about a mapped source issue issues exactly one update
\* call, addressed to the mapped id, when its kind is closed, reopened or
\* renamed, and no call at all for any other kind; never a create.
C7_MappedDispatch ==
    (IsSome(handled) /\ IsSome(Unwrap(handled).mapped)) =>
        IF Unwrap(handled).event \in {"closed", "reopened", "renamed"}
        THEN /\ Len(calls) = 1
             /\ calls[1].op = "update"
             /\ calls[1].to = Unwrap(handled).mapped
             /\ calls[1].issue.id = Unwrap(handled).issue
        ELSE calls = <<>>

\* a renamed event about a mapped issue was dispatched as an update
C7_Witness ==
    /\ IsSome(handled)
    /\ IsSome(Unwrap(handled).mapped)
    /\ Unwrap(handled).event = "renamed"
    /\ Len(calls) = 1
    /\ calls[1].op = "update"

\* the table of section 4.1 of the specification
ReferenceLabel(state, reason) ==
    CASE state = "Open" -> "Open"
      [] state = "Closed" /\ reason = Some("NotPlanned") -> "Won't fix"
      [] state = "Closed" /\ reason = Some("Reopened") -> "Reopened"
      [] state = "Closed" /\ reason = Some("Duplicate") -> "Duplicate"
      [] state = "Closed" /\ reason \in {None, Some("Completed")} -> "Fixed"
      [] state = "Other" -> "Submitted"

\* C8: every create and update payload has summary = title, description =
\* body and one State field whose value is the label the reference table
\* gives for the state and state reason of the snapshot it was built from.
C8_PayloadFromSnapshot ==
    \A c \in CallSet :
        /\ c.data.summary = c.issue.title
        /\ c.data.description = c.issue.body
        /\ Len(c.data.custom_fields) = 1
        /\ c.data.custom_fields[1].name = "State"
        /\ c.data.custom_fields[1].value.name =
               ReferenceLabel(c.issue.state, c.issue.state_reason)

\* an update was sent for a snapshot closed without reason, labelled Fixed
C8_Witness ==
    \E c \in CallSet :
        /\ c.op = "update"
        /\ c.issue.state = "Closed"
        /\ c.issue.state_reason = None
        /\ c.issue.body = Some("steps")
        /\ c.data.custom_fields[1].value.name = "Fixed"

\* C9: bootstrap creates at most one target issue per distinct source id, and
\* when it completes the mapping has one entry per distinct genuine source id
\* of the list, each holding an id a create call returned for that source id.
C9_BootstrapOncePerId ==
    (polls = 0 /\ pc \in {"bootstrap", "poll"}) =>
        /\ \A s \in SourceIds : Cardinality(created[s]) <= 1
        /\ pc = "poll" =>
            /\ DOMAIN issues = fetched
            /\ \A s \in DOMAIN issues : issues[s] \in created[s]

\* C10: a pull request never enters the mapping and no create call is ever
\* issued for one, at bootstrap or by the dispatcher.
C10_NoPullRequestCreated ==
    /\ PullId \notin DOMAIN issues
    /\ created[PullId] = {}
    /\ \A c \in CallSet : c.op = "create" => c.issue.pull_request = None

\* C11: the id of an unseen event is in the window when its create or update
\* call is issued: in every state in which the call of the last dispatched
\* event was issued, failed or not, the window holds the event's id.
C11_SeenBeforeAct ==
    \A c \in CallSet :
        c.by = "dispatch" => (IsSome(handled) /\ SeenContains(seen, Unwrap(handled).id))

\* a create failed while the window was full, and the window holds the event
C11_Witness ==
    /\ pc = "exit"
    /\ Len(calls) = 1
    /\ calls[1].by = "dispatch"
    /\ ~calls[1].ok
    /\ Len(insLog) > WindowCap
    /\ SeenContains(seen, Unwrap(handled).id)

\* a failure of the loop: of the feed request, of the parse, of a call
LoopFailed == err # "" /\ polls > 0

\* C12: after a failure in the loop no further poll is sent, no create or
\* update is issued, the rest of the page is not dispatched, and the mapping
\* and the window are not modified.
C12_LoopFailureIsFinal ==
    [][LoopFailed => /\ pc = "exit"
                     /\ UNCHANGED <<pc, polls, calls, nextTarget, created, page,
                                    curBatch, issues, seen, etag>>]_vars

\* a create of the loop failed with events of the page left
C12_Witness ==
    /\ LoopFailed
    /\ pc = "exit"
    /\ err = "Failed to create an issue"
    /\ page # <<>>
    /\ seen # <<>>

\* a create call of the bootstrap failed
BootstrapFailed ==
    /\ err # ""
    /\ \E c \in CallSet : c.by = "bootstrap" /\ ~c.ok

LoopPcs == {"poll", "dispatch", "sleep"}

\* C13: after a failed create of the bootstrap nothing more is created, the
\* loop is never entered and the mapping is not touched again; and once the
\* bootstrap is over no step issues a bootstrap create again.
C13_BootstrapFailFastOnce ==
    [][/\ BootstrapFailed =>
            /\ pc = "exit"
            /\ polls = 0
            /\ UNCHANGED <<pc, polls, calls, nextTarget, created, issues, github_issues>>
       /\ pc \in LoopPcs \cup {"exit"} =>
            /\ pc' \in LoopPcs \cup {"exit"}
            /\ \A c \in Range(calls') : c.by # "bootstrap"]_vars

\* the first create of a list of two failed: nothing is mapped, both remain
C13_Witness ==
    /\ BootstrapFailed
    /\ pc = "exit"
    /\ polls = 0
    /\ Len(Genuine(github_issues)) = 2
    /\ issues = EmptyMap
    /\ nextTarget = 0

\* the first project of every answer find_project can give
FirstProjects == {list[1] : list \in ProjectLists \ {<<>>}}

\* C14: every create call is addressed to the first project find_project
\* returned; when it returned none the run ended with an error before any
\* create or update, before the loop, with the mapping and the window empty.
C14_FirstProjectOrError ==
    /\ IsSome(project) => Unwrap(project) \in FirstProjects
    /\ \A c \in CallSet : c.op = "create" => (IsSome(project) /\ c.project = project)
    /\ err = "Project not found" =>
        /\ pc = "exit"
        /\ project = None
        /\ calls = <<>>
        /\ nextTarget = 0
        /\ created = NoCreated
        /\ polls = 0
        /\ issues = EmptyMap
        /\ seen = <<>>

\* find_project returned nothing after issues were listed: no call, no mapping
C14_Witness ==
    /\ err = "Project not found"
    /\ fetched # {}
    /\ issues = EmptyMap
    /\ nextTarget = 0

\* C15: the window never holds more than WindowCap event ids.
C15_WindowBounded == Len(seen) <= WindowCap

\* the window is full after more than WindowCap ids were pushed
C15_Witness ==
    /\ Len(seen) = WindowCap
    /\ Len(insLog) > WindowCap + 1

\* C17: the run is sequential.  A feed request of the loop is sent only after
\* the bootstrap ended; the events of a page are handled one after the other
\* in the order of the page, all of them before the delay; the delay follows
\* every answered poll, with or without events, and the next poll follows
\* the delay only.
C17_Sequential ==
    [][/\ polls' # polls =>
            /\ pc = "poll"
            /\ polls' = polls + 1
            /\ github_issues = <<>>
            /\ IsSome(project)
       /\ (pc # "poll" /\ pc' = "poll") => pc \in {"bootstrap", "sleep"}
       /\ (pc = "bootstrap" /\ pc' = "poll") => (Genuine(github_issues) = <<>> /\ polls = 0)
       /\ pc = "sleep" => (pc' = "poll" /\ polls > 0)
       /\ (pc = "poll" /\ err' = "") =>
            /\ page' = Unwrap(lastPoll').events
            /\ pc' = IF page' = <<>> THEN "sleep" ELSE "dispatch"
       /\ (pc = "dispatch" /\ err' = "") =>
            /\ page # <<>>
            /\ page' = Tail(page)
            /\ IsSome(handled') => Unwrap(handled').id = Head(page)
            /\ pc' = IF page' = <<>> THEN "sleep" ELSE "dispatch"
            /\ polls' = polls]_vars

\* the delay of the second cycle, reached after the last event of its page
C17_Witness ==
    /\ pc = "sleep"
    /\ polls = 2
    /\ IsSome(handled)
    /\ Len(Unwrap(lastPoll).events) = 2
    /\ page = <<>>

\* C19: the validator stored by the first feed request, made before the issues
\* are listed and before anything is created, is kept until the first poll of
\* the loop and sent with it; when the feed grew in between, that poll is not
\* answered with 304 and its page is dispatched with an empty window.
C19_FirstPollSendsInitialToken ==
    [][/\ (pc = "start" /\ pc' # "exit") =>
            /\ etag' \in {None, Some(feedLen')}
            /\ fetched' = {}
            /\ nextTarget' = 0
       /\ (pc # "start" /\ polls' = 0) => etag' = etag
       /\ (polls = 0 /\ polls' = 1) =>
            /\ Unwrap(lastPoll').sent = etag
            /\ seen = <<>>
            /\ feedLen' > feedLen =>
                /\ Unwrap(lastPoll').status = 200
                /\ page' = FeedPage(feedLen')
                /\ pc' = "dispatch"
                /\ seen' = <<>>]_vars

\* the feed grew while the bootstrap created an issue: the first poll sent the
\* older validator and its page is about to be dispatched
C19_Witness ==
    /\ polls = 1
    /\ pc = "dispatch"
    /\ calls = <<>>
    /\ seen = <<>>
    /\ nextTarget > 0
    /\ IsSome(Unwrap(lastPoll).sent)
    /\ Unwrap(lastPoll).status = 200
    /\ feedLen > Unwrap(Unwrap(lastPoll).sent)
    /\ page = FeedPage(feedLen)

NoDuplicates(s) == \A i, j \in 1..Len(s) : s[i] = s[j] => i = j

C18_WindowPart ==
    [][/\ NoDuplicates(seen')
       /\ insLog' # insLog => ~SeenContains(seen, insLog'[Len(insLog')])]_vars

====
